---- MODULE Spec2Model ----
(***************************************************************************)
(* Model of the ml-service prediction engine: WaitTimePredictor            *)
(* (wait_time_arima.py), NoShowPredictor (no_show_rf_simple.py) and        *)
(* DemandForecaster (demand_forecast_simple.py).                           *)
(*                                                                         *)
(* Python floats are kept as scaled integers: multipliers in tenths,       *)
(* the historical variation in thousandths, probabilities in thousandths,  *)
(* confidences in hundredths.  Where IEEE-754 doubles give another integer *)
(* than exact arithmetic, the difference is tabulated (FloatShort).        *)
(***************************************************************************)
EXTENDS Integers, Sequences, FiniteSets, TLC

VARIABLES
    average_service_times,  \* WaitTimePredictor.average_service_times
    historical_data,        \* WaitTimePredictor.historical_data
    priority_multipliers,   \* WaitTimePredictor.priority_multipliers (tenths)
    service_id,             \* request: service identifier
    priority,               \* request: priority string, or None
    now,                    \* request: current_time, in hours since Monday 00:00
    args,                   \* the other arguments of the most recent estimator call
    ret,                    \* what the most recent call returned
    tpc,                    \* train thread: position in train()
    tleft,                  \* train thread: groups the loop has not reached yet
    rpc,                    \* predict thread: position in predict()
    rloc                    \* predict thread: locals of predict()

vars == <<average_service_times, historical_data, priority_multipliers,
          service_id, priority, now, args, ret, tpc, tleft, rpc, rloc>>

calibration == <<average_service_times, historical_data, priority_multipliers>>
request == <<service_id, priority, now>>
threads == <<tpc, tleft, rpc, rloc>>

----------------------------------------------------------------------------
\* Bounds of the model.
MaxQueue == 10

\* Python's None, kept apart from every string the model uses.
None == "<None>"

ServiceIds == {"s1", "s2"}
Priorities == {"emergency", "disabled", "senior", "normal", "Senior", "vip", None}
QueuePositions == 1..MaxQueue
HoursOfWeek == 0..167

\* np.random.uniform(0.9, 1.1) draws from [0.9, 1.1): samples, in thousandths.
Variations == {900, 1000, 1099}
NoVariation == 1000

\* str.lower() on the strings of the model.
Lower(s) == IF s = "Senior" THEN "senior" ELSE s

Max(a, b) == IF a >= b THEN a ELSE b
Min(a, b) == IF a <= b THEN a ELSE b

----------------------------------------------------------------------------
\* WaitTimePredictor.__init__
InitServiceTimes == [s \in {"default"} |-> 10]
InitPriorityMultipliers ==
    [p \in {"emergency", "disabled", "senior", "normal"} |->
        CASE p = "emergency" -> 2
          [] p = "disabled" -> 5
          [] p = "senior" -> 7
          [] p = "normal" -> 10]
EmptyDict == [s \in {} |-> 0]

\* datetime.hour and datetime.weekday() of a time in hours since Monday 00:00.
HourOf(t) == t % 24
WeekdayOf(t) == (t \div 24) % 7

\* _get_time_multiplier, in tenths.
get_time_multiplier(hour) ==
    IF (9 <= hour /\ hour <= 11) \/ (14 <= hour /\ hour <= 16) THEN 13
    ELSE IF 12 <= hour /\ hour <= 13 THEN 8
    ELSE IF hour < 9 \/ hour > 17 THEN 9
    ELSE 10

\* _get_day_multiplier, in tenths.
get_day_multiplier(weekday) ==
    IF weekday = 0 THEN 14
    ELSE IF weekday = 4 THEN 12
    ELSE IF weekday >= 5 THEN 7
    ELSE 10

\* dict.setdefault in place of dict.get: the read stores the default.
SetDefaultBaseTime(times, sid) ==
    LET v == IF sid \in DOMAIN times THEN times[sid] ELSE times["default"]
    IN [base_time |-> v,
        times |-> [s \in DOMAIN times \cup {sid} |-> IF s = sid THEN v ELSE times[s]]]
\* self.average_service_times.get(service_id, self.average_service_times['default']):
\* the value read, and the dict as the read leaves it.
get_base_time(times, sid) ==
    [base_time |-> IF sid \in DOMAIN times THEN times[sid] ELSE times["default"],
     times |-> times]

\* self.priority_multipliers.get(priority.lower(), 1.0), in tenths.
get_priority_mult(mults, prio) ==
    IF Lower(prio) \in DOMAIN mults THEN mults[Lower(prio)] ELSE 10

\* The products queue_position * base_time * priority * time * day (lines 52-65)
\* whose value in doubles is one ulp below an integer, so that int() gives one
\* less than the exact product: <<base_wait, priority, time, day>>.
FloatShort ==
    { <<45,10,10,14>>, <<50,10,9,14>>, <<90,5,10,14>>, <<90,7,10,10>>,
      <<90,10,10,7>>, <<90,10,10,14>>, <<100,5,9,14>>, <<100,10,9,7>>,
      <<100,10,9,14>>, <<180,5,10,7>>, <<180,5,10,14>>, <<180,7,10,10>>,
      <<180,10,10,7>>, <<180,10,10,14>>, <<330,5,10,14>>, <<330,7,10,10>>,
      <<330,10,10,7>>, <<330,10,10,14>>, <<360,5,10,7>>, <<360,5,10,14>>,
      <<360,7,10,10>>, <<360,10,10,7>>, <<360,10,10,14>>, <<450,2,10,7>>,
      <<450,2,10,14>>, <<450,5,8,7>>, <<450,5,8,14>>, <<450,10,8,7>>,
      <<450,10,8,14>>,
      <<200,5,9,7>>, <<200,5,9,14>>, <<200,10,9,7>>, <<200,10,9,14>>,
      <<250,2,9,14>>, <<250,7,10,14>>, <<250,10,13,14>>, <<500,2,9,7>>,
      <<500,2,9,14>>, <<500,5,13,7>>, <<500,5,13,14>>, <<500,7,10,7>>,
      <<500,7,10,14>>, <<500,10,13,7>>, <<500,10,13,14>> }

\* int(adjusted_wait): adjusted_wait = base_wait * priority_mult * time_multiplier
\* * day_multiplier [* variation], truncated.
TruncWait(base_wait, pm, tm, dm, variation) ==
    LET exact == (base_wait * pm * tm * dm * variation) \div 1000000
    IN IF variation = NoVariation /\ <<base_wait, pm, tm, dm>> \in FloatShort
       THEN exact - 1 ELSE exact

\* The lower bound alone.
NoUpperClamp(w) == Max(3, w)
\* max(3, min(int(adjusted_wait), 240))
ClampWait(w) == Max(3, Min(w, 240))

\* The confidence without the second reduction for long queues.
ConfidenceOneStep(hist, sid, queue_position) ==
    LET c0 == 75
        c1 == IF queue_position > 20 THEN c0 - 10 ELSE c0
        c3 == IF sid \in DOMAIN hist THEN c1 + 10 ELSE c1
    IN Min(95, Max(50, c3))
\* _calculate_confidence, in hundredths.
calculate_confidence(hist, sid, queue_position) ==
    LET c0 == 75
        c1 == IF queue_position > 20 THEN c0 - 10 ELSE c0
        c2 == IF queue_position > 50 THEN c1 - 10 ELSE c1
        c3 == IF sid \in DOMAIN hist THEN c2 + 10 ELSE c2
    IN Min(95, Max(50, c3))

\* The dict predict() returns, from the values it has read.
WaitResult(base_time, hasHistory, conf, prio, queue_position, t, variation) ==
    LET pm == get_priority_mult(priority_multipliers, prio)
        tm == get_time_multiplier(HourOf(t))
        dm == get_day_multiplier(WeekdayOf(t))
        v == IF hasHistory THEN variation ELSE NoVariation
    IN [predicted_wait_time |->
            ClampWait(TruncWait(queue_position * base_time, pm, tm, dm, v)),
        confidence |-> conf,
        model_used |-> "enhanced_arima_v2",
        breakdown |-> [base_time |-> base_time,
                       queue_position |-> queue_position,
                       priority_adjustment |-> pm,
                       time_of_day_factor |-> tm,
                       day_of_week_factor |-> dm]]

\* priority.lower() on None raises.
Raised == [raised |-> "AttributeError"]
\* A call that returned None (train, load), or no call yet.
ReturnedNone == [returned |-> None]
IsWaitResult(r) == "predicted_wait_time" \in DOMAIN r

----------------------------------------------------------------------------
\* Training data: a DataFrame is a sequence of groups, each `samples` equal rows
\* of one service (so the group's means are its row's values and its standard
\* deviation is 0).
Group(sid, n, wait, qpos) ==
    [service_id |-> sid, samples |-> n, actual_wait_time |-> wait,
     queue_position |-> qpos]
TrainingSets ==
    { <<Group("s1", 30, 90, 3)>>,
      <<Group("s1", 30, 20, 5)>>,
      <<Group("s1", 29, 90, 3)>> }
\* Data of two services, for the runs where train() and predict() interleave.
MixedTrainingSets ==
    { <<Group("s1", 15, 90, 3), Group("s2", 15, 20, 5)>> }

RECURSIVE DataLen(_)
DataLen(ds) == IF ds = <<>> THEN 0 ELSE Head(ds).samples + DataLen(Tail(ds))

\* len(historical_data) < 30
MinSamples == 30
Insufficient(ds) == DataLen(ds) < MinSamples

\* max(5, int(avg_time)), avg_time = mean(actual_wait_time) / mean(queue_position)
TrainedServiceTime(g) == Max(5, g.actual_wait_time \div g.queue_position)

\* self.average_service_times[service_id] = ...
TrainTimes(times, g) ==
    [s \in DOMAIN times \cup {g.service_id} |->
        IF s = g.service_id THEN TrainedServiceTime(g) ELSE times[s]]

\* The entry train() stores in historical_data.
TrainedHistory(g) ==
    [samples |-> g.samples, avg_wait |-> g.actual_wait_time, std_wait |-> 0]

\* self.historical_data[service_id] = {...}
TrainHist(hist, g) ==
    [s \in DOMAIN hist \cup {g.service_id} |->
        IF s = g.service_id THEN TrainedHistory(g) ELSE hist[s]]

\* The loop of train() over the services of the data, run to its end.
RECURSIVE TrainLoop(_, _, _)
TrainLoop(times, hist, groups) ==
    IF groups = <<>> THEN [times |-> times, hist |-> hist]
    ELSE TrainLoop(TrainTimes(times, Head(groups)),
                   TrainHist(hist, Head(groups)), Tail(groups))

\* What load() finds at the path it is given: no file, or the model a fresh
\* predictor saved with save().
NoFile == [exists |-> FALSE]
SavedModels ==
    { [exists |-> TRUE,
       average_service_times |-> InitServiceTimes,
       historical_data |-> EmptyDict,
       priority_multipliers |-> InitPriorityMultipliers] }

----------------------------------------------------------------------------
\* One thread at a time: each call runs from its first line to its return.

\* WaitTimePredictor.predict
Predict(queue_position, variation) ==
    /\ tpc = "idle" /\ rpc = "idle"
    /\ LET got == get_base_time(average_service_times, service_id)
           hasHistory == service_id \in DOMAIN historical_data
       IN /\ variation \in (IF hasHistory THEN Variations ELSE {NoVariation})
          /\ average_service_times' = got.times
          /\ args' = [queue_position |-> queue_position]
          /\ ret' = IF priority = None THEN Raised
                    ELSE WaitResult(got.base_time, hasHistory,
                             calculate_confidence(historical_data, service_id,
                                                  queue_position),
                             priority, queue_position, now, variation)
    /\ UNCHANGED <<historical_data, priority_multipliers, request, threads>>

\* WaitTimePredictor.train
Train(ds) ==
    /\ tpc = "idle" /\ rpc = "idle"
    /\ LET done == IF Insufficient(ds)
                   THEN [times |-> average_service_times, hist |-> historical_data]
                   ELSE TrainLoop(average_service_times, historical_data, ds)
       IN /\ average_service_times' = done.times
          /\ historical_data' = done.hist
    /\ args' = [historical_data |-> ds] /\ ret' = ReturnedNone
    /\ UNCHANGED <<priority_multipliers, request, threads>>

\* WaitTimePredictor.load
Load(file) ==
    /\ tpc = "idle" /\ rpc = "idle"
    /\ IF file.exists
       THEN /\ average_service_times' = file.average_service_times
            /\ historical_data' = file.historical_data
            /\ priority_multipliers' = file.priority_multipliers
       ELSE UNCHANGED calibration
    /\ args' = EmptyDict /\ ret' = ReturnedNone
    /\ UNCHANGED <<request, threads>>

Init ==
    /\ average_service_times = InitServiceTimes
    /\ historical_data = EmptyDict
    /\ priority_multipliers = InitPriorityMultipliers
    /\ service_id \in ServiceIds
    /\ priority \in Priorities
    /\ now \in HoursOfWeek
    /\ args = EmptyDict /\ ret = ReturnedNone
    /\ tpc = "idle" /\ tleft = <<>>
    /\ rpc = "idle" /\ rloc = EmptyDict

Next ==
    \/ \E q \in QueuePositions, v \in Variations : Predict(q, v)
    \/ \E ds \in TrainingSets : Train(ds)
    \/ \E file \in SavedModels \cup {NoFile} : Load(file)

Spec == Init /\ [][Next]_vars

----------------------------------------------------------------------------
\* Properties of WaitTimePredictor, checked under Spec.

KnownPriorities == {"emergency", "disabled", "senior", "normal"}
\* Train and load return None: a step that leaves another return value is a
\* predict call.
PredictReturned == ret' # ReturnedNone

\* C1: for every priority of the four, every queue position >= 1, every hour and
\* weekday and every service, calibrated or not, predict returns an integer
\* predicted_wait_time with 3 <= predicted_wait_time <= 240.
C1_WaitWithinBounds ==
    (IsWaitResult(ret) /\ priority \in KnownPriorities)
        => ret.predicted_wait_time \in 3..240
\* A calibrated service whose estimate was cut to the upper bound, and one raised
\* to the lower bound.
C1_Witness ==
    /\ IsWaitResult(ret) /\ priority = "normal"
    /\ service_id \in DOMAIN historical_data
    /\ ret.predicted_wait_time = 240
    /\ args.queue_position * ret.breakdown.base_time > 240

\* C2: with service, priority, time and calibration fixed, a call with a larger
\* queue position never returns fewer minutes than a call with a smaller one.
C2_MonotoneInQueuePosition ==
    [][(/\ IsWaitResult(ret) /\ IsWaitResult(ret')
        /\ UNCHANGED <<calibration, request>>
        /\ args.queue_position < args'.queue_position)
       => ret.predicted_wait_time <= ret'.predicted_wait_time]_vars

\* C3: two calls with identical inputs and no calibration update between them
\* return the same result.
C3_Idempotent ==
    [][(/\ IsWaitResult(ret) /\ IsWaitResult(ret')
        /\ UNCHANGED <<calibration, request>>
        /\ args' = args)
       => ret' = ret]_vars

C6_UnknownEnumerationFallsBack ==
    ret # ReturnedNone =>
        /\ IsWaitResult(ret)
        /\ Lower(priority) \notin KnownPriorities
              => ret.breakdown.priority_adjustment = 10
        /\ service_id \notin DOMAIN average_service_times
              => ret.breakdown.base_time = 10

----------------------------------------------------------------------------
\* A train() call and a predict() call on two threads: nothing in the code keeps
\* one from running between two lines of the other.  Each step below is one
\* access to the shared dicts.

ConcTrainingSets == TrainingSets \cup MixedTrainingSets

\* train(), lines 163-165: the length check; the loop starts at line 168.
TrainBegin(ds) ==
    /\ tpc = "idle"
    /\ IF Insufficient(ds)
       THEN /\ args' = EmptyDict /\ ret' = ReturnedNone
            /\ UNCHANGED <<tpc, tleft>>
       ELSE /\ tpc' = "L173" /\ tleft' = ds
            /\ UNCHANGED <<args, ret>>
    /\ UNCHANGED <<calibration, request, rpc, rloc>>

\* train(), lines 172-173: self.average_service_times[service_id] = ...
TrainStoreTime ==
    /\ tpc = "L173"
    /\ average_service_times' = TrainTimes(average_service_times, Head(tleft))
    /\ tpc' = "L176"
    /\ UNCHANGED <<historical_data, priority_multipliers, request, args, ret,
                   tleft, rpc, rloc>>

\* train(), lines 176-180: self.historical_data[service_id] = {...}, and the
\* next service of the loop or the return.
TrainStoreHistory ==
    /\ tpc = "L176"
    /\ historical_data' = TrainHist(historical_data, Head(tleft))
    /\ tleft' = Tail(tleft)
    /\ IF Tail(tleft) = <<>>
       THEN tpc' = "idle" /\ args' = EmptyDict /\ ret' = ReturnedNone
       ELSE tpc' = "L173" /\ UNCHANGED <<args, ret>>
    /\ UNCHANGED <<average_service_times, priority_multipliers, request, rpc, rloc>>

\* predict(), lines 44-65: reads average_service_times and priority_multipliers.
\* had_entry notes whether the service had an entry of its own at line 48.
PredictReadTime(queue_position) ==
    /\ rpc = "idle"
    /\ LET got == get_base_time(average_service_times, service_id)
       IN /\ average_service_times' = got.times
          /\ IF priority = None
             THEN /\ args' = [queue_position |-> queue_position]
                  /\ ret' = Raised
                  /\ UNCHANGED <<rpc, rloc>>
             ELSE /\ rpc' = "L68"
                  /\ rloc' = [queue_position |-> queue_position,
                              base_time |-> got.base_time,
                              had_entry |-> service_id \in DOMAIN average_service_times]
                  /\ UNCHANGED <<args, ret>>
    /\ UNCHANGED <<historical_data, priority_multipliers, request, tpc, tleft>>

\* predict(), lines 68-73: reads historical_data and draws the variation.
\* history_seen is the entry found there.
PredictReadHistory(variation) ==
    /\ rpc = "L68"
    /\ LET hasHistory == service_id \in DOMAIN historical_data
       IN /\ variation \in (IF hasHistory THEN Variations ELSE {NoVariation})
          /\ rloc' = [queue_position |-> rloc.queue_position,
                      base_time |-> rloc.base_time,
                      had_entry |-> rloc.had_entry,
                      has_history |-> hasHistory,
                      history_seen |-> IF hasHistory THEN historical_data[service_id]
                                       ELSE EmptyDict,
                      variation |-> variation]
    /\ rpc' = "L76"
    /\ UNCHANGED <<calibration, request, args, ret, tpc, tleft>>

\* predict(), lines 76-89: _calculate_confidence reads historical_data again, and
\* the result is returned.
PredictReturn ==
    /\ rpc = "L76"
    /\ args' = [queue_position |-> rloc.queue_position]
    /\ ret' = WaitResult(rloc.base_time, rloc.has_history,
                  calculate_confidence(historical_data, service_id,
                                       rloc.queue_position),
                  priority, rloc.queue_position, now, rloc.variation)
    /\ rpc' = "idle" /\ rloc' = EmptyDict
    /\ UNCHANGED <<calibration, request, tpc, tleft>>

InitConc ==
    /\ average_service_times = InitServiceTimes
    /\ historical_data = EmptyDict
    /\ priority_multipliers = InitPriorityMultipliers
    /\ service_id \in ServiceIds
    /\ priority \in {"normal", None}
    /\ now = 34
    /\ args = EmptyDict /\ ret = ReturnedNone
    /\ tpc = "idle" /\ tleft = <<>>
    /\ rpc = "idle" /\ rloc = EmptyDict

NextConc ==
    \/ \E ds \in ConcTrainingSets : TrainBegin(ds)
    \/ TrainStoreTime
    \/ TrainStoreHistory
    \/ \E q \in QueuePositions : PredictReadTime(q)
    \/ \E v \in Variations : PredictReadHistory(v)
    \/ PredictReturn

SpecConc == InitConc /\ [][NextConc]_vars

\* The groups of the training data that hold a service.
GroupsOf(sid) ==
    { g \in UNION { { ds[i] : i \in 1..Len(ds) } : ds \in ConcTrainingSets } :
        g.service_id = sid }

\* C5: a predict call running beside a train call sees, of its service, either no
\* entry in average_service_times and none in historical_data, or the service
\* time and the historical entry that one training stored together.
C5_ReaderSeesWholeRecord ==
    rpc = "L76" =>
        \/ ~rloc.had_entry /\ ~rloc.has_history
        \/ /\ rloc.had_entry /\ rloc.has_history
           /\ \E g \in GroupsOf(service_id) :
                 /\ rloc.base_time = TrainedServiceTime(g)
                 /\ rloc.history_seen = TrainedHistory(g)

----------------------------------------------------------------------------
\* NoShowPredictor (no_show_rf_simple.py); probabilities in thousandths.

MaxNoShowQueue == 31
MaxWait == 91
\* Queue positions and estimated waits on both sides of every threshold.
NoShowQueuePositions == {1, 15, 16, 30, MaxNoShowQueue}
EstimatedWaits == {0, 60, 61, 90, MaxWait}

\* NoShowPredictor.__init__
default_probabilities ==
    [p \in {"emergency", "disabled", "senior", "normal"} |->
        CASE p = "emergency" -> 20
          [] p = "disabled" -> 50
          [] p = "senior" -> 80
          [] p = "normal" -> 120]

\* self.default_probabilities.get(priority.lower(), 0.12)
base_probability(prio) ==
    IF Lower(prio) \in DOMAIN default_probabilities
    THEN default_probabilities[Lower(prio)] ELSE 120

\* The thresholds taken as >= 15 and >= 30.
QueueAdjustmentFrom15(queue_position) ==
    (IF queue_position >= 15 THEN 50 ELSE 0)
        + (IF queue_position >= 30 THEN 100 ELSE 0)
\* if queue_position > 15: += 0.05; if queue_position > 30: += 0.10
queue_adjustment(queue_position) ==
    (IF queue_position > 15 THEN 50 ELSE 0)
        + (IF queue_position > 30 THEN 100 ELSE 0)

\* if estimated_wait > 60: += 0.08; elif estimated_wait > 90: += 0.15
wait_adjustment(estimated_wait) ==
    IF estimated_wait > 60 THEN 80
    ELSE IF estimated_wait > 90 THEN 150
    ELSE 0

\* if hour_of_day >= 17: += 0.08; if 12 <= hour_of_day <= 14: += 0.05
hour_adjustment(hour_of_day) ==
    (IF hour_of_day >= 17 THEN 80 ELSE 0)
        + (IF 12 <= hour_of_day /\ hour_of_day <= 14 THEN 50 ELSE 0)

\* if day_of_week == 4: += 0.05; if day_of_week >= 5: -= 0.03
day_adjustment(day_of_week) ==
    (IF day_of_week = 4 THEN 50 ELSE 0)
        - (IF day_of_week >= 5 THEN 30 ELSE 0)

\* The upper cap alone.
CapAbove(p) == Min(700, p)
\* min(0.70, max(0.01, base_prob))
CapProbability(p) == Min(700, Max(10, p))

\* The thresholds taken inclusively.
RiskLevelInclusive(p) ==
    IF p <= 150 THEN "low" ELSE IF p <= 350 THEN "medium" ELSE "high"
\* 'low' if final_prob < 0.15 else 'medium' if final_prob < 0.35 else 'high'
risk_level(p) ==
    IF p < 150 THEN "low" ELSE IF p < 350 THEN "medium" ELSE "high"

\* The recommendations list.
recommendations(p) ==
    IF p > 400 THEN <<"Send additional reminder notification",
                      "Consider calling next token as backup">>
    ELSE IF p < 100 THEN <<"Low risk - standard notification sufficient">>
    ELSE <<>>

\* The dict NoShowPredictor.predict returns.
NoShowResult(prio, queue_position, day_of_week, hour_of_day, estimated_wait) ==
    LET base_prob == base_probability(prio) + queue_adjustment(queue_position)
                       + wait_adjustment(estimated_wait)
                       + hour_adjustment(hour_of_day)
                       + day_adjustment(day_of_week)
        final_prob == CapProbability(base_prob)
    IN [no_show_probability |-> final_prob,
        confidence |-> 75,
        risk_level |-> risk_level(final_prob),
        model_used |-> "rule_based_v2",
        recommendations |-> recommendations(final_prob)]
IsNoShowResult(r) == "no_show_probability" \in DOMAIN r

\* NoShowPredictor.predict, with day_of_week and hour_of_day those of `now`.
NoShowPredict(queue_position, estimated_wait) ==
    /\ args' = [queue_position |-> queue_position,
                estimated_wait |-> estimated_wait]
    /\ ret' = IF priority = None THEN Raised
              ELSE NoShowResult(priority, queue_position, WeekdayOf(now),
                                HourOf(now), estimated_wait)
    /\ UNCHANGED <<calibration, request, threads>>

InitNoShow ==
    /\ average_service_times = InitServiceTimes
    /\ historical_data = EmptyDict
    /\ priority_multipliers = InitPriorityMultipliers
    /\ service_id = "s1"
    /\ priority \in Priorities
    /\ now \in HoursOfWeek
    /\ args = EmptyDict /\ ret = ReturnedNone
    /\ tpc = "idle" /\ tleft = <<>>
    /\ rpc = "idle" /\ rloc = EmptyDict

NextNoShow ==
    \E q \in NoShowQueuePositions, w \in EstimatedWaits : NoShowPredict(q, w)

SpecNoShow == InitNoShow /\ [][NextNoShow]_vars

----------------------------------------------------------------------------
\* Properties of NoShowPredictor, checked under SpecNoShow.

\* C7: for every priority, queue position, day, hour and estimated wait the
\* returned no_show_probability lies in [0.01, 0.70].
C7_ProbabilityWithinBounds ==
    IsNoShowResult(ret) =>
        (10 <= ret.no_show_probability /\ ret.no_show_probability <= 700)
\* An emergency token on a weekend: 0.02 - 0.03 is raised to 0.01.
C7_Witness ==
    /\ IsNoShowResult(ret)
    /\ priority = "emergency" /\ WeekdayOf(now) >= 5 /\ HourOf(now) = 10
    /\ args.queue_position = 1 /\ args.estimated_wait = 0
    /\ ret.no_show_probability = 10

\* The rule of the claim for the wait: 0.15 above 90 minutes, else 0.08 above 60.
ClaimedWaitAdjustment(estimated_wait) ==
    IF estimated_wait > 90 THEN 150
    ELSE IF estimated_wait > 60 THEN 80
    ELSE 0

\* C8: the returned probability is the capped sum of the base and the
\* adjustments, where the adjustment for the wait is 0.15 above 90 minutes, else
\* 0.08 above 60 minutes, else nothing.
C8_WaitAdjustment ==
    IsNoShowResult(ret) =>
        ret.no_show_probability =
            Min(700, Max(10,
                base_probability(priority) + queue_adjustment(args.queue_position)
                  + ClaimedWaitAdjustment(args.estimated_wait)
                  + hour_adjustment(HourOf(now))
                  + day_adjustment(WeekdayOf(now))))

\* The base probabilities of the claim.
ClaimedBase(prio) ==
    CASE prio = "emergency" -> 20
      [] prio = "disabled" -> 50
      [] prio = "senior" -> 80
      [] prio = "normal" -> 120

\* C9: with queue position <= 15, estimated wait <= 60, hour below 17 and outside
\* 12..14 and weekday in 0..3, the probability is the base of the priority.
C9_BaseProbabilityExact ==
    (/\ IsNoShowResult(ret)
     /\ priority \in KnownPriorities
     /\ args.queue_position <= 15 /\ args.estimated_wait <= 60
     /\ HourOf(now) < 17 /\ ~(12 <= HourOf(now) /\ HourOf(now) <= 14)
     /\ WeekdayOf(now) \in 0..3)
        => ret.no_show_probability = ClaimedBase(priority)
\* Emergency, position 1, hour 10, weekday 2, wait 0 gives 0.02.
C9_Witness ==
    /\ IsNoShowResult(ret)
    /\ priority = "emergency" /\ now = 2 * 24 + 10
    /\ args.queue_position = 1 /\ args.estimated_wait = 0
    /\ ret.no_show_probability = 20

----------------------------------------------------------------------------
\* DemandForecaster (demand_forecast_simple.py).

MaxHorizon == 24
Horizons == 0..MaxHorizon

\* hourly_pattern.get(hour, 10)
hourly_pattern(hour) ==
    CASE hour = 8 -> 15 [] hour = 9 -> 35 [] hour = 10 -> 45 [] hour = 11 -> 40
      [] hour = 12 -> 25 [] hour = 13 -> 20 [] hour = 14 -> 38 [] hour = 15 -> 42
      [] hour = 16 -> 35 [] hour = 17 -> 20 [] hour = 18 -> 10 [] hour = 19 -> 5
      [] hour = 20 -> 3 [] OTHER -> 10

\* day_multipliers.get(weekday, 1.0), in tenths.
day_multipliers(weekday) ==
    CASE weekday = 0 -> 14 [] weekday = 1 -> 11 [] weekday = 2 -> 10
      [] weekday = 3 -> 10 [] weekday = 4 -> 12 [] weekday = 5 -> 6
      [] weekday = 6 -> 4 [] OTHER -> 10

\* The products base_demand * multiplier whose value in doubles is below the
\* exact one, so that int() gives one less: 45 * 1.4 = 62.99999999999999.
DemandFloatShort == { <<45, 14>> }

\* _predict_hour
predict_hour(hour, weekday) ==
    LET base_demand == hourly_pattern(hour)
        multiplier == day_multipliers(weekday)
        exact == (base_demand * multiplier) \div 10
        predicted_demand == IF <<base_demand, multiplier>> \in DemandFloatShort
                            THEN exact - 1 ELSE exact
    IN Max(1, predicted_demand)

\* The quotient rounded down instead of up.
CountersRoundedDown(predicted_demand) == predicted_demand \div 15
\* max(1, int(np.ceil(predicted_demand / 15)))
recommended_counters(predicted_demand) == Max(1, (predicted_demand + 14) \div 15)

\* 'low' if predicted_demand < 20 else 'moderate' if predicted_demand < 35 else 'high'
demand_level(predicted_demand) ==
    IF predicted_demand < 20 THEN "low"
    ELSE IF predicted_demand < 35 THEN "moderate" ELSE "high"

\* The offsets counted from 0, as range(hours_ahead) would.
ForecastTimeFromZero(current_time, hour_offset) == current_time + hour_offset - 1
\* forecast_time = current_time + timedelta(hours=hour_offset), in hours since
\* the Monday 00:00 of the week of current_time.
ForecastTime(current_time, hour_offset) == current_time + hour_offset

\* The dict appended to forecast_data for one hour_offset; the timestamp is the
\* forecast time itself (isoformat() and fromisoformat() are inverse).
ForecastPoint(current_time, hour_offset) ==
    LET forecast_time == ForecastTime(current_time, hour_offset)
        hour == HourOf(forecast_time)
        weekday == WeekdayOf(forecast_time)
        predicted_demand == predict_hour(hour, weekday)
    IN [timestamp |-> forecast_time,
        hour |-> hour,
        weekday |-> weekday,
        predicted_tokens |-> predicted_demand,
        lower_bound |-> (predicted_demand * 75) \div 100,
        upper_bound |-> (predicted_demand * 125) \div 100,
        demand_level |-> demand_level(predicted_demand),
        recommended_counters |-> recommended_counters(predicted_demand)]

\* for hour_offset in range(1, hours_ahead + 1): forecast_data.append(...)
RECURSIVE ForecastLoop(_, _, _, _)
ForecastLoop(forecast_data, hour_offset, hours_ahead, current_time) ==
    IF hour_offset >= hours_ahead + 1 THEN forecast_data
    ELSE ForecastLoop(Append(forecast_data, ForecastPoint(current_time, hour_offset)),
                      hour_offset + 1, hours_ahead, current_time)

\* The last of the points with the most tokens.
RECURSIVE MaxByTokensLast(_, _)
MaxByTokensLast(best, rest) ==
    IF rest = <<>> THEN best
    ELSE MaxByTokensLast(IF Head(rest).predicted_tokens >= best.predicted_tokens
                         THEN Head(rest) ELSE best, Tail(rest))
\* max(forecast_data, key=lambda x: x['predicted_tokens']): the first of the
\* points with the most tokens.
RECURSIVE MaxByTokens(_, _)
MaxByTokens(best, rest) ==
    IF rest = <<>> THEN best
    ELSE MaxByTokens(IF Head(rest).predicted_tokens > best.predicted_tokens
                     THEN Head(rest) ELSE best, Tail(rest))

\* sum(f['predicted_tokens'] for f in forecast_data)
RECURSIVE SumTokens(_)
SumTokens(points) ==
    IF points = <<>> THEN 0
    ELSE Head(points).predicted_tokens + SumTokens(Tail(points))

\* max() of an empty forecast_data raises.
RaisedValueError == [raised |-> "ValueError"]

\* The dict DemandForecaster.forecast returns; the first insight names the peak
\* time as strftime('%I:%M %p') prints it, by its hour of the day.
ForecastResult(hours_ahead, current_time) ==
    LET forecast_data == ForecastLoop(<<>>, 1, hours_ahead, current_time)
    IN IF forecast_data = <<>> THEN RaisedValueError
       ELSE LET peak_hour_data == MaxByTokens(Head(forecast_data), Tail(forecast_data))
            IN [forecast |-> forecast_data,
                insights |-> <<[peak_time |-> HourOf(peak_hour_data.timestamp),
                                customers |-> peak_hour_data.predicted_tokens],
                               [counters |-> peak_hour_data.recommended_counters]>>,
                confidence |-> "medium",
                model_used |-> "time_series_v2",
                summary |-> [total_predicted_tokens |-> SumTokens(forecast_data),
                             peak_demand |-> peak_hour_data.predicted_tokens,
                             recommended_total_staff |->
                                 peak_hour_data.recommended_counters]]
IsForecast(r) == "forecast" \in DOMAIN r

\* DemandForecaster.forecast
Forecast(hours_ahead) ==
    /\ args' = [hours_ahead |-> hours_ahead]
    /\ ret' = ForecastResult(hours_ahead, now)
    /\ UNCHANGED <<calibration, request, threads>>

InitDemand ==
    /\ average_service_times = InitServiceTimes
    /\ historical_data = EmptyDict
    /\ priority_multipliers = InitPriorityMultipliers
    /\ service_id \in ServiceIds
    /\ priority = "normal"
    /\ now \in HoursOfWeek
    /\ args = EmptyDict /\ ret = ReturnedNone
    /\ tpc = "idle" /\ tleft = <<>>
    /\ rpc = "idle" /\ rloc = EmptyDict

NextDemand == \E h \in Horizons : Forecast(h)

SpecDemand == InitDemand /\ [][NextDemand]_vars

----------------------------------------------------------------------------
\* Properties of DemandForecaster, checked under SpecDemand.

\* C10: for hours_ahead >= 1 and current time T the forecast has exactly
\* hours_ahead points, the k-th for the time T + k with the hour and weekday of
\* that time, so that the points are one hour apart in increasing order.
C10_OnePointPerHour ==
    (ret # ReturnedNone /\ args.hours_ahead >= 1) =>
        /\ IsForecast(ret)
        /\ Len(ret.forecast) = args.hours_ahead
        /\ \A k \in 1..Len(ret.forecast) :
              /\ ret.forecast[k].timestamp = now + k
              /\ ret.forecast[k].hour = (now + k) % 24
              /\ ret.forecast[k].weekday = ((now + k) \div 24) % 7
        /\ \A k \in 1..(Len(ret.forecast) - 1) :
              ret.forecast[k + 1].timestamp = ret.forecast[k].timestamp + 1
\* Five points from Sunday 22:00: the third is Monday 01:00.
C10_Witness ==
    /\ IsForecast(ret) /\ now = 6 * 24 + 22 /\ args.hours_ahead = 5
    /\ Len(ret.forecast) = 5
    /\ ret.forecast[3].weekday = 0 /\ ret.forecast[3].hour = 1

\* C11: every point of a forecast, for every hour 0-23 and weekday 0-6, has
\* predicted_tokens >= 1, lower_bound <= predicted_tokens <= upper_bound and
\* recommended_counters >= 1 with recommended_counters = ceil(predicted_tokens / 15).
C11_PointWellFormed ==
    IsForecast(ret) =>
        \A k \in 1..Len(ret.forecast) :
            LET p == ret.forecast[k]
            IN /\ p.predicted_tokens >= 1
               /\ p.lower_bound <= p.predicted_tokens
               /\ p.predicted_tokens <= p.upper_bound
               /\ p.recommended_counters >= 1
               /\ 15 * (p.recommended_counters - 1) < p.predicted_tokens
               /\ p.predicted_tokens <= 15 * p.recommended_counters
\* A day from Sunday 10:00: it holds the lowest point (Sunday 20:00, one token,
\* one counter) and the highest (Monday 10:00, 62 tokens, five counters).
C11_Witness ==
    /\ IsForecast(ret) /\ now = 6 * 24 + 10 /\ args.hours_ahead = 24
    /\ ret.forecast[10].hour = 20 /\ ret.forecast[10].weekday = 6
    /\ ret.forecast[10].predicted_tokens = 1
    /\ ret.forecast[10].lower_bound = 0
    /\ ret.forecast[10].recommended_counters = 1
    /\ ret.forecast[24].predicted_tokens = 62
    /\ ret.forecast[24].recommended_counters = 5

----------------------------------------------------------------------------
\* EmergencyClassifier (emergency_classifier.py).

MaxMedical == 4
MaxIndicators == 6
MaxWords == 31

\* The categories of genuine_keywords, in the order of the dict.
Categories == <<"medical", "legal", "travel", "death", "pregnancy">>
CategorySet == {Categories[i] : i \in 1..Len(Categories)}
\* suspicious_patterns
SuspiciousPatterns ==
    {"urgent.*today", "very.*urgent", "please.*fast", "need.*now", "important.*work"}

\* A reason text is given by what classify() reads of it: len(reason),
\* len(reason.strip()), len(reason.split()), the number of keywords of each
\* category that occur in it, the number of false indicators that occur in it
\* and the suspicious patterns that match it.
Text(length, stripped, words, keywords, indicators, patterns) ==
    [length |-> length, stripped |-> stripped, words |-> words,
     keywords |-> keywords, indicators |-> indicators, patterns |-> patterns]
\* reason = None
NoReason == [none |-> TRUE]

\* Keywords and indicators are searched as substrings and the patterns with
\* '.*', so the counts do not bound each other, save that the patterns about
\* 'urgent' match only where the medical keyword 'urgent' occurs and
\* 'please.*fast' only where the indicator 'fast' occurs.
Consistent(t) ==
    /\ (t.patterns \cap {"urgent.*today", "very.*urgent"} # {})
          => t.keywords["medical"] >= 1
    /\ ("please.*fast" \in t.patterns) => t.indicators >= 1

KeywordCounts ==
    { k \in [CategorySet -> 0..MaxMedical] :
        \A c \in CategorySet \ {"medical"} : k[c] <= 1 }
FewKeywords == { k \in KeywordCounts : k["medical"] <= 2 /\ k["travel"] = 0
                                        /\ k["death"] = 0 /\ k["pregnancy"] = 0 }

\* Texts of 200 characters with 14 to MaxWords words.
LongReasons ==
    { t \in { Text(200, 200, w, k, i, p) :
                w \in {14, 15, 30, MaxWords}, k \in KeywordCounts,
                i \in 0..MaxIndicators, p \in SUBSET SuspiciousPatterns } :
        Consistent(t) }
\* Texts of up to 10 characters between the surrounding whitespace, such as
\* '', '   ', 'bail', ' need now ', 'painfever', 'chest pain' and 'fast visa':
\* a keyword or an indicator takes 4 characters or more, a pattern 7.
BriefReasons ==
    { t \in { Text(n + pad, n, w, k, i, p) :
                n \in {0, 9, 10}, pad \in {0, 3}, w \in 0..2, k \in FewKeywords,
                i \in 0..1, p \in SUBSET {"need.*now"} } :
        /\ Consistent(t)
        /\ (t.stripped = 0) = (t.words = 0)
        /\ 4 * (t.keywords["medical"] + t.keywords["legal"] + t.indicators)
              + 7 * Cardinality(t.patterns) <= t.stripped }
Reasons == {NoReason} \cup BriefReasons \cup LongReasons

\* Only a missing or empty reason counts as too short.
MissingOnly(reason) == reason = NoReason \/ reason.length = 0
\* if not reason or len(reason.strip()) < 10
TooShort(reason) ==
    reason = NoReason \/ reason.length = 0 \/ reason.stripped < 10

\* The dict returned for a reason that is too short; confidence in hundredths.
ShortResult ==
    [classification |-> "false", confidence |-> 95,
     reasoning |-> "Emergency reason too short or missing.",
     requires_admin_review |-> FALSE, suggested_priority |-> "NORMAL"]

\* The loop over genuine_keywords: the score in hundredths and the categories
\* with a match, from category number i on.
RECURSIVE genuine_loop(_, _, _, _)
genuine_loop(reason, i, genuine_score, matched_categories) ==
    IF i > Len(Categories)
    THEN [genuine_score |-> genuine_score, matched_categories |-> matched_categories]
    ELSE LET matches == reason.keywords[Categories[i]]
         IN IF matches > 0
            THEN genuine_loop(reason, i + 1, genuine_score + matches * 20,
                              Append(matched_categories, Categories[i]))
            ELSE genuine_loop(reason, i + 1, genuine_score, matched_categories)

\* genuine_score after the word count check, in hundredths.
genuine_score(reason) ==
    genuine_loop(reason, 1, 0, <<>>).genuine_score
        + (IF reason.words >= 15 /\ reason.words > 30 THEN 10 ELSE 0)
\* false_score after the word count check, in hundredths.
false_score(reason) ==
    15 * reason.indicators + (IF reason.words < 15 THEN 20 ELSE 0)
\* Each pattern counted 0.2.
SuspiciousScoreDouble(reason) == 20 * Cardinality(reason.patterns)
\* suspicious_score, in hundredths.
suspicious_score(reason) == 10 * Cardinality(reason.patterns)

\* The scores whose value in doubles is above the decimal one: three matches
\* make 0.2 + 0.2 + 0.2 = 0.2 + 0.4 = 3 * 0.2 = 0.6000000000000001.
GenuineFloatOver == {60}
\* genuine_confidence > 0.6, in doubles
AboveGenuineThreshold(genuine_confidence) ==
    genuine_confidence > 60
        \/ (genuine_confidence = 60 /\ genuine_confidence \in GenuineFloatOver)

\* EmergencyClassifier.classify, called at time t; round(confidence, 2) is the
\* confidence in hundredths.
classify(reason, t) ==
    IF TooShort(reason) THEN ShortResult
    ELSE LET genuine_confidence == Min(genuine_score(reason), 100)
             false_confidence == Min(false_score(reason), 100)
             suspicious_confidence == Min(suspicious_score(reason), 100)
             matched_categories == genuine_loop(reason, 1, 0, <<>>).matched_categories
             requires_review == genuine_confidence < 80
         IN IF AboveGenuineThreshold(genuine_confidence) /\ false_confidence < 30
            THEN [classification |-> "genuine",
                  confidence |-> genuine_confidence,
                  reasoning |-> IF requires_review
                                THEN "Requires admin verification for final approval."
                                ELSE "Automatically approved.",
                  requires_admin_review |-> requires_review,
                  suggested_priority |-> "EMERGENCY",
                  matched_categories |-> matched_categories,
                  timestamp |-> t]
            ELSE IF false_confidence > 50 \/ genuine_confidence < 20
            THEN [classification |-> "false",
                  confidence |-> false_confidence,
                  reasoning |-> "No genuine emergency indicators found.",
                  requires_admin_review |-> FALSE,
                  suggested_priority |-> "NORMAL",
                  matched_categories |-> <<>>,
                  timestamp |-> t]
            ELSE [classification |-> "suspicious",
                  confidence |-> 50 + suspicious_confidence,
                  reasoning |-> "Mixed indicators detected.",
                  requires_admin_review |-> TRUE,
                  suggested_priority |-> "NORMAL",
                  matched_categories |-> <<>>,
                  timestamp |-> t]
IsClassification(r) == "classification" \in DOMAIN r

MaxYears == 65
MaxClaimedAge == 66

\* A date of birth in ISO format: the time t it names, in hours on the axis of
\* now, and the offset written after it ("" for none).
IsoDate(t, suffix) == [t |-> t, suffix |-> suffix]
\* A string that is no ISO date.
Unparsable == [text |-> "garbage"]
\* date_of_birth = None
NoDate == [none |-> TRUE]
\* The days between the date of birth and now: a date in the future, today, and
\* the days around a birthday for 59 to MaxYears years (16 leap days in 65 years).
ElapsedDays == {0 - 2, 0} \cup { y * 365 + d : y \in 59..MaxYears, d \in {0, 16, 364} }
DatesOfBirth(t) ==
    { IsoDate(t - (d * 24 + h), z) :
        d \in ElapsedDays, h \in {0, 23}, z \in {"", "Z", "+05:30"} }
        \cup {Unparsable, NoDate}
ClaimedAges == {0, 1} \cup 58..MaxClaimedAge

\* The dict returned from the except branch; actual_age is None, the record has
\* no such field. Confidence in hundredths.
FailureResult ==
    [is_senior |-> FALSE, confidence |-> 0, requires_document |-> TRUE,
     reasoning |-> "Unable to verify age"]

\* datetime.fromisoformat(date_of_birth.replace('Z', '+00:00')) returns a value;
\* None has no replace() and another string is no ISO date.
Parses(date_of_birth) == "t" \in DOMAIN date_of_birth
\* The parsed datetime carries an offset; datetime.now() carries none, and the
\* difference of the two raises TypeError.
IsAware(date_of_birth) == date_of_birth.suffix # ""
\* claimed_age or age, for a call c
ClaimedOr(c, age) ==
    IF "claimed_age" \in DOMAIN c
    THEN (IF c.claimed_age = 0 THEN age ELSE c.claimed_age)
    ELSE age
Abs(n) == IF n < 0 THEN 0 - n ELSE n
\* EmergencyClassifier.verify_senior_citizen for a call c made at time t
verify_senior_citizen(c, t) ==
    IF ~Parses(c.date_of_birth) \/ IsAware(c.date_of_birth) THEN FailureResult
    ELSE LET age == ((t - c.date_of_birth.t) \div 24) \div 365
             is_senior == age >= 60
             confidence == IF Abs(age - ClaimedOr(c, age)) <= 1 THEN 100 ELSE 70
         IN [is_senior |-> is_senior,
             actual_age |-> age,
             confidence |-> confidence,
             requires_document |-> (~is_senior \/ confidence < 90),
             reasoning |-> "Calculated age"]
IsVerification(r) == "is_senior" \in DOMAIN r

MaxIdLen == 13

\* Characters of an identity number: ASCII digits, the Arabic-Indic digit three
\* (U+0663), a letter, a blank and a newline.
AsciiDigits == {"0", "1", "2", "3", "4", "5", "6", "7", "8", "9"}
IdChars == {"0", "9", "U+0663", "a", " ", "\n"}
\* Strings of up to MaxIdLen digits '1' with at most one character replaced and
\* at most one character appended.
IdStrings ==
    { [k \in 1..n |-> IF k = i THEN c ELSE "1"] \o tail :
        n \in 0..MaxIdLen, i \in 0..MaxIdLen, c \in IdChars,
        tail \in {<<>>, <<"\n">>, <<"a">>} }

\* \d in a str pattern: any Unicode decimal digit
MatchesDigit(c) == c \in AsciiDigits \cup {"U+0663"}
\* re.match(r'^\d{12}$', aadhaar_number): twelve \d from the start, then the end
\* of the string, which $ also finds before a newline that ends the string.
validate_aadhaar_format(aadhaar_number) ==
    /\ Len(aadhaar_number) >= 12
    /\ \A k \in 1..12 : MatchesDigit(aadhaar_number[k])
    /\ \/ Len(aadhaar_number) = 12
       \/ Len(aadhaar_number) = 13 /\ aadhaar_number[13] = "\n"

\* The calls of the classifier, each with its arguments.
ClassifyCalls == { [call |-> "classify", reason |-> r] : r \in Reasons }
VerifyCalls(t) ==
    { [call |-> "verify_senior_citizen", date_of_birth |-> d] : d \in DatesOfBirth(t) }
    \cup { [call |-> "verify_senior_citizen", date_of_birth |-> d, claimed_age |-> a] :
             d \in DatesOfBirth(t), a \in ClaimedAges }
ValidateCalls ==
    { [call |-> "validate_aadhaar_format", aadhaar_number |-> n] : n \in IdStrings }
EmergencyCalls(t) == ClassifyCalls \cup VerifyCalls(t) \cup ValidateCalls

\* EmergencyClassifier.classify
Classify ==
    /\ args.call = "classify" /\ ret = ReturnedNone
    /\ ret' = classify(args.reason, now)
    /\ UNCHANGED <<calibration, request, args, threads>>

\* EmergencyClassifier.verify_senior_citizen
VerifySeniorCitizen ==
    /\ args.call = "verify_senior_citizen" /\ ret = ReturnedNone
    /\ ret' = verify_senior_citizen(args, now)
    /\ UNCHANGED <<calibration, request, args, threads>>

\* EmergencyClassifier.validate_aadhaar_format
ValidateAadhaarFormat ==
    /\ args.call = "validate_aadhaar_format" /\ ret = ReturnedNone
    /\ ret' = [valid |-> validate_aadhaar_format(args.aadhaar_number)]
    /\ UNCHANGED <<calibration, request, args, threads>>

InitEmergency ==
    /\ average_service_times = InitServiceTimes
    /\ historical_data = EmptyDict
    /\ priority_multipliers = InitPriorityMultipliers
    /\ service_id = "s1" /\ priority = "emergency"
    /\ now = 34
    /\ args \in EmergencyCalls(now) /\ ret = ReturnedNone
    /\ tpc = "idle" /\ tleft = <<>>
    /\ rpc = "idle" /\ rloc = EmptyDict

NextEmergency == Classify \/ VerifySeniorCitizen \/ ValidateAadhaarFormat

SpecEmergency == InitEmergency /\ [][NextEmergency]_vars

----------------------------------------------------------------------------
\* Properties of EmergencyClassifier, checked under SpecEmergency.

\* The scores of the decision rule, in hundredths and capped at 1.0.
genuineScore == Min(genuine_score(args.reason), 100)
falseScore == Min(false_score(args.reason), 100)
suspiciousScore == Min(suspicious_score(args.reason), 100)

\* C12: for every text of trimmed length >= 10 the decision rule is applied in
\* this precedence: genuineScore > 0.6 and falseScore < 0.3 gives genuine with
\* confidence = genuineScore, requiresReview = (confidence < 0.8) and priority
\* EMERGENCY; else falseScore > 0.5 or genuineScore < 0.2 gives false with
\* confidence = falseScore, no review and NORMAL; else suspicious with
\* confidence = 0.5 + suspiciousScore, review and NORMAL. A text that meets both
\* the genuine and the false condition is genuine.
C12_DecisionRule ==
    (IsClassification(ret) /\ args.reason # NoReason /\ args.reason.stripped >= 10) =>
        IF genuineScore > 60 /\ falseScore < 30
        THEN /\ ret.classification = "genuine"
             /\ ret.confidence = genuineScore
             /\ ret.requires_admin_review = (ret.confidence < 80)
             /\ ret.suggested_priority = "EMERGENCY"
        ELSE IF falseScore > 50 \/ genuineScore < 20
        THEN /\ ret.classification = "false"
             /\ ret.confidence = falseScore
             /\ ret.requires_admin_review = FALSE
             /\ ret.suggested_priority = "NORMAL"
        ELSE /\ ret.classification = "suspicious"
             /\ ret.confidence = 50 + suspiciousScore
             /\ ret.requires_admin_review = TRUE
             /\ ret.suggested_priority = "NORMAL"

\* C13: for a reason that is missing, empty or of trimmed length < 10, classify
\* raises nothing and returns false with confidence 0.95, no review and priority
\* NORMAL, whatever keywords the text holds.
C13_ShortReasonIsFalse ==
    (/\ ret # ReturnedNone /\ args.call = "classify"
     /\ (args.reason = NoReason \/ args.reason.stripped < 10)) =>
        /\ IsClassification(ret)
        /\ ret.classification = "false"
        /\ ret.confidence = 95
        /\ ret.requires_admin_review = FALSE
        /\ ret.suggested_priority = "NORMAL"
\* A text of nine characters between whitespace that holds a medical and a legal
\* keyword, such as '  pain bail '.
C13_Witness ==
    /\ IsClassification(ret)
    /\ args.reason # NoReason
    /\ args.reason.stripped = 9 /\ args.reason.length = 12
    /\ args.reason.keywords["medical"] = 1 /\ args.reason.keywords["legal"] = 1
    /\ ret.classification = "false" /\ ret.confidence = 95

\* C14: every classification is well-formed: the confidence lies in [0, 1] for
\* each of the three labels (for suspicious it is 0.5 + suspiciousScore),
\* matched_categories is non-empty only for the label genuine, and the suggested
\* priority is EMERGENCY exactly for the label genuine.
C14_ClassificationWellFormed ==
    IsClassification(ret) =>
        /\ ret.classification \in {"genuine", "suspicious", "false"}
        /\ ret.confidence \in 0..100
        /\ ("matched_categories" \in DOMAIN ret /\ ret.matched_categories # <<>>)
              => ret.classification = "genuine"
        /\ ret.suggested_priority \in {"EMERGENCY", "NORMAL"}
        /\ (ret.suggested_priority = "EMERGENCY") = (ret.classification = "genuine")
\* A text that matches all five suspicious patterns is suspicious with
\* confidence 0.5 + 0.5 = 1.0.
C14_Witness ==
    /\ IsClassification(ret)
    /\ args.reason # NoReason /\ args.reason.patterns = SuspiciousPatterns
    /\ ret.classification = "suspicious" /\ ret.confidence = 100
    /\ ret.matched_categories = <<>> /\ ret.suggested_priority = "NORMAL"

\* The whole days from the date of birth of the call to now.
ElapsedDaysOf(c) == (now - c.date_of_birth.t) \div 24

\* C15: for every well-formed ISO date of birth, with or without a trailing Z,
\* and every claimed age (any integer, 0 included, or none), the result has
\* age = elapsed days div 365, is_senior = (age >= 60), confidence 1.0 if
\* |age - claimed age| <= 1 or no claimed age was given and 0.7 otherwise, and
\* requires_document = (not is_senior or confidence < 0.9).
C15_AgeVerification ==
    (/\ ret # ReturnedNone /\ args.call = "verify_senior_citizen"
     /\ Parses(args.date_of_birth)
     /\ args.date_of_birth.suffix \in {"", "Z"}) =>
        LET age == ElapsedDaysOf(args) \div 365
            agrees == \/ "claimed_age" \notin DOMAIN args
                      \/ Abs(age - args.claimed_age) <= 1
        IN /\ IsVerification(ret)
           /\ "actual_age" \in DOMAIN ret /\ ret.actual_age = age
           /\ ret.is_senior = (age >= 60)
           /\ ret.confidence = (IF agrees THEN 100 ELSE 70)
           /\ ret.requires_document = (~ret.is_senior \/ ret.confidence < 90)

\* C16: for a date of birth that cannot be parsed the call raises nothing and
\* returns is_senior false, no actual_age, confidence 0.0 and requires_document
\* true; this failure result is returned for an unparsable input only.
C16_FailureOnlyUnparsable ==
    (ret # ReturnedNone /\ args.call = "verify_senior_citizen") =>
        /\ IsVerification(ret)
        /\ ~Parses(args.date_of_birth) =>
              /\ ret.is_senior = FALSE
              /\ "actual_age" \notin DOMAIN ret
              /\ ret.confidence = 0
              /\ ret.requires_document = TRUE
        /\ ("actual_age" \notin DOMAIN ret \/ ret.confidence = 0)
              => ~Parses(args.date_of_birth)

\* C17: validate_aadhaar_format returns true if and only if the input is exactly
\* 12 ASCII digits '0'-'9' and nothing else; another length, a non-digit, a
\* non-ASCII digit or an extra character such as a trailing newline gives false.
C17_ExactlyTwelveAsciiDigits ==
    (ret # ReturnedNone /\ args.call = "validate_aadhaar_format") =>
        ret.valid = (/\ Len(args.aadhaar_number) = 12
                     /\ \A k \in 1..Len(args.aadhaar_number) :
                           args.aadhaar_number[k] \in AsciiDigits)

----------------------------------------------------------------------------
\* The HTTP endpoints (app.py), serving from the module-level estimators.

MaxAppQueue == 3
MaxAppHorizon == 3

\* What a client may send in the integer fields of a request.
RequestQueuePositions == (0 - 2)..MaxAppQueue
RequestHours == (0 - 1)..MaxAppHorizon
\* current_time of a request: the time `now` in ISO format, with or without Z,
\* or a string that is no ISO date.
RequestTimes(t) == {IsoDate(t, ""), IsoDate(t, "Z"), Unparsable}

\* raise HTTPException(status_code=500, detail=str(e))
ServerError == [status_code |-> 500]
\* The answer of the framework to a request that does not fit the request model.
Unprocessable == [status_code |-> 422]
\* No estimator was called.
NoCall == EmptyDict
IsEstimatorCall(a) == "estimator" \in DOMAIN a

\* POST /predict/wait-time. No endpoint trains or loads wait_time_model, so its
\* historical_data stays empty and predict draws no variation.
PostPredictWaitTime(queue_position, current_time) ==
    /\ IF ~Parses(current_time)
       THEN args' = NoCall /\ ret' = ServerError
       ELSE LET got == get_base_time(average_service_times, service_id)
                hasHistory == service_id \in DOMAIN historical_data
                prediction ==
                    WaitResult(got.base_time, hasHistory,
                               calculate_confidence(historical_data, service_id,
                                                    queue_position),
                               priority, queue_position, current_time.t, NoVariation)
            IN /\ args' = [estimator |-> "wait_time_model.predict",
                           queue_position |-> queue_position]
               /\ ret' = IF priority = None THEN ServerError
                         ELSE [status_code |-> 200,
                               predicted_wait_time |-> prediction.predicted_wait_time,
                               confidence |-> prediction.confidence,
                               model_used |-> prediction.model_used]
    /\ UNCHANGED <<calibration, request, threads>>

\* POST /predict/no-show, with day_of_week and hour_of_day those of `now`; the
\* request model wants a string as priority.
PostPredictNoShow(queue_position) ==
    /\ IF priority = None
       THEN args' = NoCall /\ ret' = Unprocessable
       ELSE LET prediction == NoShowResult(priority, queue_position,
                                           WeekdayOf(now), HourOf(now), 0)
            IN /\ args' = [estimator |-> "no_show_model.predict",
                           queue_position |-> queue_position]
               /\ ret' = [status_code |-> 200,
                          no_show_probability |-> prediction.no_show_probability,
                          confidence |-> prediction.confidence,
                          model_used |-> prediction.model_used]
    /\ UNCHANGED <<calibration, request, threads>>

\* POST /predict/demand
PostPredictDemand(hours_ahead, current_time) ==
    /\ IF ~Parses(current_time)
       THEN args' = NoCall /\ ret' = ServerError
       ELSE LET forecast == ForecastResult(hours_ahead, current_time.t)
            IN /\ args' = [estimator |-> "demand_forecaster.forecast",
                           hours_ahead |-> hours_ahead]
               /\ ret' = IF forecast = RaisedValueError THEN ServerError
                         ELSE [status_code |-> 200,
                               forecast |-> forecast.forecast,
                               confidence |-> forecast.confidence,
                               model_used |-> forecast.model_used]
    /\ UNCHANGED <<calibration, request, threads>>

OverviewHours == 8
StaffPlanHours == 24

\* GET /insights/overview, asked at the time `now`; peak_hour is the hour of the
\* day that strftime('%I:%M %p') prints.
GetInsightsOverview ==
    /\ LET forecast == ForecastResult(OverviewHours, now)
           peak_hour_data == MaxByTokens(Head(forecast.forecast),
                                         Tail(forecast.forecast))
           peak_hour == HourOf(peak_hour_data.timestamp)
       IN /\ args' = [estimator |-> "demand_forecaster.forecast",
                      hours_ahead |-> OverviewHours]
          /\ ret' = [status_code |-> 200,
                     demand_forecast |->
                        [next_8_hours |-> SubSeq(forecast.forecast, 1, 8),
                         peak_hour |-> peak_hour,
                         peak_demand |-> peak_hour_data.predicted_tokens,
                         recommended_counters |-> peak_hour_data.recommended_counters,
                         summary |-> forecast.summary],
                     no_show_analysis |->
                        [current_risk_level |-> "medium", high_risk_tokens |-> 0],
                     optimization_recommendations |->
                        <<[peak_time |-> peak_hour,
                           counters |-> peak_hour_data.recommended_counters],
                          "Consider staff breaks during low-demand periods",
                          "Enable SMS notifications for high-risk no-show tokens">>,
                     confidence_scores |->
                        [demand_forecast |-> forecast.confidence,
                         overall_accuracy |-> "85%"]]
    /\ UNCHANGED <<calibration, request, threads>>

\* "Peak period" also for a moderate demand level.
NotesFromModerate(level) ==
    IF level \in {"moderate", "high", "very_high"}
    THEN "Peak period" ELSE "Normal operations"
\* "Peak period" if hour_data['demand_level'] in ['high', 'very_high'] else ...
schedule_notes(level) ==
    IF level \in {"high", "very_high"} THEN "Peak period" ELSE "Normal operations"

\* The entry of schedule_recommendations for one point of the forecast; time is
\* the hour of the day that strftime('%I:00 %p') prints.
schedule_entry(hour_data) ==
    [time |-> HourOf(hour_data.timestamp),
     recommended_staff |-> hour_data.recommended_counters,
     expected_demand |-> hour_data.predicted_tokens,
     demand_level |-> hour_data.demand_level,
     notes |-> schedule_notes(hour_data.demand_level)]

\* sum(h['recommended_counters'] for h in forecast['forecast'])
RECURSIVE SumCounters(_)
SumCounters(points) ==
    IF points = <<>> THEN 0
    ELSE Head(points).recommended_counters + SumCounters(Tail(points))
\* max(h['recommended_counters'] for h in forecast['forecast'])
RECURSIVE MaxCounters(_)
MaxCounters(points) ==
    IF Len(points) = 1 THEN Head(points).recommended_counters
    ELSE Max(Head(points).recommended_counters, MaxCounters(Tail(points)))

\* GET /insights/staff-optimization, asked at the time `now`
GetStaffOptimization ==
    /\ LET forecast == ForecastResult(StaffPlanHours, now)
       IN /\ args' = [estimator |-> "demand_forecaster.forecast",
                      hours_ahead |-> StaffPlanHours]
          /\ ret' = [status_code |-> 200,
                     schedule_recommendations |->
                        [k \in 1..Len(forecast.forecast) |->
                            schedule_entry(forecast.forecast[k])],
                     summary |->
                        [total_staff_hours_needed |-> SumCounters(forecast.forecast),
                         peak_staff_count |-> MaxCounters(forecast.forecast)],
                     cost_optimization |->
                        [current_vs_optimized |-> "15% efficiency gain possible"]]
    /\ UNCHANGED <<calibration, request, threads>>

InitApp ==
    /\ average_service_times = InitServiceTimes
    /\ historical_data = EmptyDict
    /\ priority_multipliers = InitPriorityMultipliers
    /\ service_id \in ServiceIds
    /\ priority \in {"normal", "emergency", None}
    /\ now \in {10, 34, 61, 140, 164}
    /\ args = NoCall /\ ret = ReturnedNone
    /\ tpc = "idle" /\ tleft = <<>>
    /\ rpc = "idle" /\ rloc = EmptyDict

NextApp ==
    \/ \E q \in RequestQueuePositions, t \in RequestTimes(now) :
          PostPredictWaitTime(q, t)
    \/ \E q \in RequestQueuePositions : PostPredictNoShow(q)
    \/ \E h \in RequestHours, t \in RequestTimes(now) : PostPredictDemand(h, t)
    \/ GetInsightsOverview
    \/ GetStaffOptimization

SpecApp == InitApp /\ [][NextApp]_vars

----------------------------------------------------------------------------
\* Properties of the endpoints, checked under SpecApp.

\* C18: input out of range is rejected at the boundary before it reaches an
\* estimator: a request to /predict/demand with hours_ahead <= 0 never calls
\* forecast, a request to /predict/wait-time or /predict/no-show with a negative
\* queue_position never calls the estimator; the estimators are only ever called
\* with a horizon >= 1 and a queue position >= 0.
C18_BoundaryRejectsOutOfRange ==
    IsEstimatorCall(args) =>
        /\ "hours_ahead" \in DOMAIN args => args.hours_ahead >= 1
        /\ "queue_position" \in DOMAIN args => args.queue_position >= 0

----------------------------------------------------------------------------
\* WaitTimePredictor.train on data of several services, among them one whose
\* id is the key of the default entry. Checked under SpecTrain.

MaxTrainQueue == 2

\* 30 rows of two services, 30 rows of the service 'default', 29 rows, and 30
\* rows with a service whose mean time per position is below 5.
CalibrationSets ==
    { <<Group("s1", 20, 90, 3), Group("s2", 10, 20, 5)>>,
      <<Group("default", 30, 90, 3)>>,
      <<Group("s1", 20, 90, 3), Group("s2", 9, 90, 3)>>,
      <<Group("s2", 2, 2, 1), Group("s1", 28, 90, 3)>> }

InitTrain ==
    /\ average_service_times = InitServiceTimes
    /\ historical_data = EmptyDict
    /\ priority_multipliers = InitPriorityMultipliers
    /\ service_id \in {"s1", "s2", "default"}
    /\ priority = "normal"
    /\ now \in {34, 155}
    /\ args = EmptyDict /\ ret = ReturnedNone
    /\ tpc = "idle" /\ tleft = <<>>
    /\ rpc = "idle" /\ rloc = EmptyDict

NextTrain ==
    \/ \E q \in 1..MaxTrainQueue, v \in Variations : Predict(q, v)
    \/ \E ds \in CalibrationSets : Train(ds)

SpecTrain == InitTrain /\ [][NextTrain]_vars

\* The step is a call of train, and the services of the data it was given.
TrainReturned == "historical_data" \in DOMAIN args'
ServicesOf(ds) == { ds[i].service_id : i \in 1..Len(ds) }

\* C19: after any sequence of train and predict calls on a fresh predictor a
\* service has a calibration entry only if a train call given at least 30
\* records included it, every stored time per token is an integer >= 5 and the
\* default entry stays 10; a train call given fewer than 30 records leaves
\* average_service_times and historical_data as they were.
C19_CalibrationOnlyFromTraining ==
    [][/\ \A s \in (DOMAIN average_service_times' \ DOMAIN average_service_times)
              \cup (DOMAIN historical_data' \ DOMAIN historical_data) :
            /\ TrainReturned
            /\ DataLen(args'.historical_data) >= 30
            /\ s \in ServicesOf(args'.historical_data)
       /\ \A s \in DOMAIN average_service_times' : average_service_times'[s] >= 5
       /\ average_service_times'["default"] = 10
       /\ (TrainReturned /\ DataLen(args'.historical_data) < 30)
            => UNCHANGED <<average_service_times, historical_data>>]_vars

----------------------------------------------------------------------------
\* The breakdown of WaitTimePredictor.predict, checked under Spec.

\* C20: the breakdown lists every factor applied: the returned minutes are
\* clamp(trunc(queue_position * base_time * product of the factors of the
\* breakdown), 3, 240), also for a calibrated service, where the historical
\* variation (within [0.9, 1.1]) is applied.
C20_BreakdownExplainsMinutes ==
    IsWaitResult(ret) =>
        LET b == ret.breakdown
        IN ret.predicted_wait_time =
              ClampWait(TruncWait(b.queue_position * b.base_time,
                                  b.priority_adjustment, b.time_of_day_factor,
                                  b.day_of_week_factor, NoVariation))

----------------------------------------------------------------------------
\* WaitTimePredictor.predict for long queues, before and after a training that
\* calibrates service s1 (5 minutes per token). Checked under SpecConfidence.

MaxLongQueue == 51
LongQueuePositions == {1, 20, 21, 50, MaxLongQueue}

InitConfidence ==
    /\ average_service_times = InitServiceTimes
    /\ historical_data = EmptyDict
    /\ priority_multipliers = InitPriorityMultipliers
    /\ service_id \in ServiceIds
    /\ priority \in {"normal", "emergency"}
    /\ now \in {10, 34, 61, 140, 164}
    /\ args = EmptyDict /\ ret = ReturnedNone
    /\ tpc = "idle" /\ tleft = <<>>
    /\ rpc = "idle" /\ rloc = EmptyDict

NextConfidence ==
    \/ \E q \in LongQueuePositions, v \in Variations : Predict(q, v)
    \/ Train(<<Group("s1", 30, 20, 5)>>)

SpecConfidence == InitConfidence /\ [][NextConfidence]_vars

\* The confidence as the claim states it, in hundredths.
ClaimedConfidence(queue_position, calibrated) ==
    Min(95, Max(50, 75 - (IF queue_position > 20 THEN 10 ELSE 0)
                       - (IF queue_position > 50 THEN 10 ELSE 0)
                       + (IF calibrated THEN 10 ELSE 0)))

\* C21: the confidence of a wait-time estimate is 0.75, minus 0.1 if the queue
\* position is above 20, minus a further 0.1 if it is above 50, plus 0.1 if the
\* service has calibration data, and lies in [0.5, 0.95]; it never increases
\* when the queue position grows and is never lower for a calibrated service
\* than for the same call on a predictor without calibration data.
C21_ConfidenceSteps ==
    [][/\ IsWaitResult(ret') =>
            /\ ret'.confidence =
                  ClaimedConfidence(args'.queue_position,
                                    service_id' \in DOMAIN historical_data')
            /\ ret'.confidence \in 50..95
            /\ ret'.confidence >=
                  calculate_confidence(EmptyDict, service_id', args'.queue_position)
       /\ (/\ IsWaitResult(ret) /\ IsWaitResult(ret')
           /\ UNCHANGED <<calibration, request>>
           /\ args.queue_position < args'.queue_position)
            => ret'.confidence <= ret.confidence]_vars
\* A calibrated service at a queue position above 50: 0.75 - 0.2 + 0.1.
C21_Witness ==
    /\ IsWaitResult(ret)
    /\ service_id \in DOMAIN historical_data
    /\ args.queue_position > 50
    /\ ret.confidence = 65

----------------------------------------------------------------------------
\* The risk level and recommendations of NoShowPredictor.predict, checked under
\* SpecNoShow.

\* C22: risk_level and recommendations are a function of the probability in the
\* same result: low below 0.15, medium below 0.35, else high; two
\* recommendations above 0.40, one below 0.10, none otherwise. So two
\* recommendations imply high and one implies low.
C22_RiskFollowsProbability ==
    IsNoShowResult(ret) =>
        LET prob == ret.no_show_probability
            n == Len(ret.recommendations)
        IN /\ ret.risk_level = (IF prob < 150 THEN "low"
                                ELSE IF prob < 350 THEN "medium" ELSE "high")
           /\ n = (IF prob > 400 THEN 2 ELSE IF prob < 100 THEN 1 ELSE 0)
           /\ n = 2 => ret.risk_level = "high"
           /\ n = 1 => ret.risk_level = "low"
\* A probability above 0.40 with both recommendations and the level high.
C22_Witness ==
    /\ IsNoShowResult(ret)
    /\ ret.no_show_probability > 400
    /\ Len(ret.recommendations) = 2
    /\ ret.risk_level = "high"

----------------------------------------------------------------------------
\* The summary of DemandForecaster.forecast, checked under SpecDemand.

\* The tokens of the first n of the points, added up.
RECURSIVE TokensUpTo(_, _)
TokensUpTo(points, n) ==
    IF n = 0 THEN 0 ELSE points[n].predicted_tokens + TokensUpTo(points, n - 1)

\* C23: for every forecast of horizon >= 1 the summary agrees with the points:
\* peak_demand is the maximum of predicted_tokens, the peak is the earliest point
\* with that maximum, recommended_total_staff is the recommended_counters of that
\* point, and total_predicted_tokens is the sum of predicted_tokens.
C23_SummaryMatchesPoints ==
    (IsForecast(ret) /\ args.hours_ahead >= 1) =>
        LET points == ret.forecast
            top == CHOOSE k \in 1..Len(points) :
                      /\ \A j \in 1..Len(points) :
                            points[j].predicted_tokens <= points[k].predicted_tokens
                      /\ \A j \in 1..(k - 1) :
                            points[j].predicted_tokens < points[k].predicted_tokens
        IN /\ ret.summary.peak_demand = points[top].predicted_tokens
           /\ ret.insights[1].customers = points[top].predicted_tokens
           /\ ret.insights[1].peak_time = points[top].hour
           /\ ret.summary.recommended_total_staff = points[top].recommended_counters
           /\ ret.insights[2].counters = points[top].recommended_counters
           /\ ret.summary.total_predicted_tokens = TokensUpTo(points, Len(points))
\* Three points from Wednesday 21:00 with 10 tokens each: the peak is the first
\* of them, at 22:00.
C23_Witness ==
    /\ IsForecast(ret) /\ now = 2 * 24 + 21 /\ args.hours_ahead = 3
    /\ \A k \in 1..3 : ret.forecast[k].predicted_tokens = 10
    /\ ret.insights[1].peak_time = 22
    /\ ret.summary.peak_demand = 10
    /\ ret.summary.total_predicted_tokens = 30

----------------------------------------------------------------------------
\* The insights endpoints, checked under SpecApp.

IsOverview(r) == "demand_forecast" \in DOMAIN r
IsStaffPlan(r) == "schedule_recommendations" \in DOMAIN r
\* The recommended staff of the first n entries, added up.
RECURSIVE StaffUpTo(_, _)
StaffUpTo(entries, n) ==
    IF n = 0 THEN 0 ELSE entries[n].recommended_staff + StaffUpTo(entries, n - 1)

\* C24: the insights operations only read the forecaster. The overview reports
\* the peak of a forecast of 8 points: peak_demand is the maximum of their
\* predicted_tokens and recommended_counters is that of the same point. The
\* staff optimization returns 24 schedule entries in the order of the forecast,
\* total_staff_hours_needed the sum and peak_staff_count the maximum of the
\* recommended counters, and an entry is noted 'Peak period' exactly when its
\* demand level is high. Neither changes the state of an estimator.
C24_InsightsReadOnly ==
    [][/\ IsOverview(ret') =>
            LET d == ret'.demand_forecast
                points == d.next_8_hours
            IN /\ Len(points) = 8
               /\ \A k \in 1..8 : points[k] = ForecastPoint(now, k)
               /\ \A k \in 1..8 : points[k].predicted_tokens <= d.peak_demand
               /\ \E k \in 1..8 :
                     /\ points[k].predicted_tokens = d.peak_demand
                     /\ points[k].recommended_counters = d.recommended_counters
                     /\ points[k].hour = d.peak_hour
               /\ UNCHANGED calibration
       /\ IsStaffPlan(ret') =>
            LET entries == ret'.schedule_recommendations
            IN /\ Len(entries) = 24
               /\ \A k \in 1..Len(entries) :
                     /\ entries[k].time = HourOf(now + k)
                     /\ entries[k].expected_demand =
                           ForecastPoint(now, k).predicted_tokens
                     /\ entries[k].recommended_staff =
                           ForecastPoint(now, k).recommended_counters
                     /\ entries[k].recommended_staff <=
                           ret'.summary.peak_staff_count
                     /\ (entries[k].notes = "Peak period")
                           = (entries[k].demand_level = "high")
               /\ \E k \in 1..Len(entries) :
                     entries[k].recommended_staff = ret'.summary.peak_staff_count
               /\ ret'.summary.total_staff_hours_needed =
                     StaffUpTo(entries, Len(entries))
               /\ UNCHANGED calibration]_vars
\* The staff plan asked on Tuesday 10:00: the entry for 11:00 is a peak period,
\* the one for 13:00 (22 tokens) is not.
C24_Witness ==
    /\ IsStaffPlan(ret) /\ now = 34
    /\ Len(ret.schedule_recommendations) = 24
    /\ ret.schedule_recommendations[1].notes = "Peak period"
    /\ ret.schedule_recommendations[3].demand_level = "moderate"
    /\ ret.schedule_recommendations[3].notes = "Normal operations"

====
